---- MODULE Spec2Model ----
(***************************************************************************)
(* Masterblog API (backend/backend_app.py): an in-memory list of posts,    *)
(* POSTS, served by five Flask handlers: list (GET /api/posts), create     *)
(* (POST /api/posts), delete, update and search.                           *)
(*                                                                         *)
(* A text is a sequence of one-character strings, so that str.lower(),     *)
(* string comparison and the substring test are computed, not assumed.     *)
(* An optional value (a key of a JSON body, a query parameter) is a        *)
(* sequence of length 0 (absent) or 1 (present, holding the value).        *)
(* A post is a record [id, title, content]; keys of a create body other    *)
(* than title, content and id are passed through by the code untouched     *)
(* and read by no handler, and are not represented.  The titles and        *)
(* contents that requests carry are texts.                                 *)
(***************************************************************************)
EXTENDS Integers, Sequences, FiniteSets, TLC

VARIABLES
    POSTS,        \* the module-level list POSTS
    prev,         \* history: POSTS as it was when the last request arrived
    resp,         \* history: the last request served and its response
    deleted,      \* history: the ids removed by delete so far (kept by SpecIds only)
    lastDeleted,  \* history: the id the previous request removed, 0 if it removed none
    pc,           \* per worker thread: position inside the create branch
    t_next_id,    \* per worker thread: the local next_id
    t_new_post,   \* per worker thread: the local new_post
    stale,        \* history, per worker thread: POSTS changed since next_id was computed
    raced         \* history: some create appended a post while its next_id was stale

vars == <<POSTS, prev, resp, deleted, lastDeleted, pc, t_next_id, t_new_post, stale, raced>>

----------------------------------------------------------------------------
(* Bounds of the model. *)

\* The program seeds 22 posts with ids 1..22; the model seeds SeedSize posts
\* with ids 1..SeedSize.
SeedSize == 2
\* create is not explored once the list holds MaxPosts posts
MaxPosts == 3
\* create is not explored once it would assign an id above MaxId
MaxId == 3
\* worker threads of the concurrent specification
NumThreads == 2

----------------------------------------------------------------------------
(* Texts. *)

\* str.lower() on one character
LowerChar(c) ==
    CASE c = "A" -> "a"
      [] c = "B" -> "b"
      [] c = "C" -> "c"
      [] c = "D" -> "d"
      [] c = "E" -> "e"
      [] c = "S" -> "s"
      [] OTHER -> c

\* str.lower()
Lower(s) == [i \in 1..Len(s) |-> LowerChar(s[i])]

\* the code point of a character
Ord(c) ==
    CASE c = "A" -> 65 [] c = "B" -> 66 [] c = "C" -> 67 [] c = "D" -> 68
      [] c = "E" -> 69 [] c = "S" -> 83
      [] c = "a" -> 97 [] c = "b" -> 98 [] c = "c" -> 99 [] c = "d" -> 100
      [] c = "e" -> 101 [] c = "p" -> 112 [] c = "s" -> 115 [] c = "u" -> 117

\* s < t on Python strings: lexicographic by code point
RECURSIVE StrLess(_, _)
StrLess(s, t) ==
    IF t = <<>> THEN FALSE
    ELSE IF s = <<>> THEN TRUE
    ELSE IF Ord(Head(s)) < Ord(Head(t)) THEN TRUE
    ELSE IF Ord(Head(s)) > Ord(Head(t)) THEN FALSE
    ELSE StrLess(Tail(s), Tail(t))

\* q in s on Python strings: q occurs in s as a contiguous substring
StrIn(q, s) ==
    \E i \in 1..(Len(s) - Len(q) + 1) : SubSeq(s, i, i + Len(q) - 1) = q

T_empty == <<>>
T_a == <<"a">>
T_A == <<"A">>
T_Ab == <<"A", "b">>
T_b == <<"b">>
T_B == <<"B">>
T_aB == <<"a", "B">>
T_ab == <<"a", "b">>
T_asc == <<"a", "s", "c">>
T_desc == <<"d", "e", "s", "c">>
T_DESC == <<"D", "E", "S", "C">>
T_up == <<"u", "p">>

\* the texts requests carry as a title and as a content
TitleTexts == {T_empty, T_a, T_A, T_Ab}
ContentTexts == {T_empty, T_b, T_aB}

Absent == <<>>
Some(v) == <<v>>
Opt(S) == {Absent} \cup {Some(v) : v \in S}

\* truth value of an optional text, as Python's `not x` sees dict.get(key):
\* None and "" are falsy
Truthy(o) == o # Absent /\ o[1] # <<>>

----------------------------------------------------------------------------
(* Requests. *)

\* request.get_json(): JSON null, or a JSON object with optional keys
NullBody == [kind |-> "null", title |-> Absent, content |-> Absent, id |-> Absent]
ObjectBody(t, c, i) == [kind |-> "object", title |-> t, content |-> c, id |-> i]

Bodies ==
    {NullBody} \cup
    {ObjectBody(t, c, i) : t \in Opt(TitleTexts), c \in Opt(ContentTexts), i \in Opt({1})}

\* `not body`: None and {} are falsy
BodyFalsy(body) ==
    \/ body.kind = "null"
    \/ body.title = Absent /\ body.content = Absent /\ body.id = Absent

PathIds == 1..(MaxId + 1)
SortFields == Opt({"", "title", "content", "id"})
Directions == Opt({T_asc, T_desc, T_DESC, T_up})
Queries == Opt({T_empty, T_a, T_B, T_ab})

NoBody == NullBody
NoRequest ==
    [op |-> "none", id |-> 0, body |-> NoBody, sort |-> Absent, direction |-> Absent,
     title_q |-> Absent, content_q |-> Absent,
     status |-> 0, message |-> "", payload |-> <<>>]

----------------------------------------------------------------------------
(* The seed. *)

SeedTitles == <<T_a, T_Ab, T_A>>
SeedContents == <<T_b, T_aB, T_b>>

Seed ==
    [i \in 1..SeedSize |->
        [id |-> i,
         title |-> SeedTitles[((i - 1) % 3) + 1],
         content |-> SeedContents[((i - 1) % 3) + 1]]]

Ids(posts) == {posts[i].id : i \in 1..Len(posts)}

Max(S) == CHOOSE m \in S : \A x \in S : x <= m

----------------------------------------------------------------------------
(* create: POST /api/posts *)

\* faulty variants of next_id: the length of the list plus one; the smallest
\* id not in use; the largest id in use
next_id_len(posts) == Len(posts) + 1
next_id_gap(posts) == CHOOSE n \in 1..(Len(posts) + 1) :
                          n \notin Ids(posts) /\ \A m \in 1..(n - 1) : m \in Ids(posts)
next_id_max(posts) == IF posts # <<>> THEN Max(Ids(posts)) ELSE 1

next_id(posts) == IF posts # <<>> THEN Max(Ids(posts)) + 1 ELSE 1

Result(status, message, posts, payload) ==
    [status |-> status, message |-> message, posts |-> posts, payload |-> payload]

\* faulty variant of StoredPost: an id the body supplies is kept
StoredPostKeepsBodyId(body, nid) ==
    [id |-> IF body.id # Absent THEN body.id[1] ELSE nid,
     title |-> body.title[1], content |-> body.content[1]]

\* new_post['id'] = next_id on the decoded body
StoredPost(body, nid) ==
    [id |-> nid, title |-> body.title[1], content |-> body.content[1]]

\* the checks on new_post = request.get_json(): the status and message they
\* end in.  None has no get(): the handler raises AttributeError, which Flask
\* answers with status 500.
CreateCheck(new_post) ==
    IF new_post.kind = "null" THEN <<500, "AttributeError">>
    ELSE IF ~Truthy(new_post.title) THEN <<400, "Missing Title">>
    ELSE IF ~Truthy(new_post.content) THEN <<400, "Missing Content">>
    ELSE <<201, "Created">>

\* faulty variant of CreateWithId: the post is appended once its title has
\* passed, before the content is checked
CreateAppendsBeforeContentCheck(posts, body, nid) ==
    LET c == CreateCheck(body) IN
    IF c[1] = 201 \/ c[2] = "Missing Content"
    THEN Result(c[1], c[2],
                Append(posts, [id |-> nid, title |-> body.title[1],
                               content |-> IF body.content = Absent THEN <<>>
                                           ELSE body.content[1]]), <<>>)
    ELSE Result(c[1], c[2], posts, <<>>)

\* the create branch from request.get_json() on, next_id being computed already
CreateWithId(posts, body, nid) ==
    LET c == CreateCheck(body) IN
    IF c[1] = 201
    THEN Result(201, c[2], Append(posts, StoredPost(body, nid)), <<>>)
    ELSE Result(c[1], c[2], posts, <<>>)

CreatePost(posts, body) == CreateWithId(posts, body, next_id(posts))

----------------------------------------------------------------------------
(* delete: DELETE /api/posts/<id> *)

\* the least element of a set of indices, 0 if it is empty
FirstOf(S) == IF S = {} THEN 0 ELSE CHOOSE i \in S : \A j \in S : i <= j

\* for post in POSTS: if id == post['id']: the index of the first such post
FirstWithId(posts, id) == FirstOf({i \in 1..Len(posts) : id = posts[i].id})

\* the index of the first element equal to x
FirstEqual(posts, x) == FirstOf({i \in 1..Len(posts) : posts[i] = x})

RemoveAt(posts, i) == SubSeq(posts, 1, i - 1) \o SubSeq(posts, i + 1, Len(posts))

\* list.remove(x): removes the first element equal to x
ListRemove(posts, x) == RemoveAt(posts, FirstEqual(posts, x))

\* faulty variant of DeletePost: the id found is used as a position in the list
DeletePostByPosition(posts, id) ==
    LET i == FirstWithId(posts, id) IN
    IF i # 0
    THEN Result(200, "deleted",
                RemoveAt(posts, IF id <= Len(posts) THEN id ELSE Len(posts)), <<>>)
    ELSE Result(404, "not found", posts, <<>>)

DeletePost(posts, id) ==
    LET i == FirstWithId(posts, id) IN
    IF i # 0
    THEN Result(200, "deleted", ListRemove(posts, posts[i]), <<>>)
    ELSE Result(404, "not found", posts, <<>>)

----------------------------------------------------------------------------
(* update: PUT /api/posts/<id> *)

\* faulty variants of UpdatedPost: a key is assigned whenever the body holds
\* it, empty or not; the body's id is assigned too
UpdatedPostKeyPresent(post, new_details) ==
    LET p1 == IF new_details.title # Absent
              THEN [post EXCEPT !.title = new_details.title[1]]
              ELSE post
    IN  IF new_details.content # Absent
        THEN [p1 EXCEPT !.content = new_details.content[1]]
        ELSE p1

UpdatedPostWithId(post, new_details) ==
    LET p1 == IF Truthy(new_details.title)
              THEN [post EXCEPT !.title = new_details.title[1]]
              ELSE post
        p2 == IF Truthy(new_details.content)
              THEN [p1 EXCEPT !.content = new_details.content[1]]
              ELSE p1
    IN  IF new_details.id # Absent THEN [p2 EXCEPT !.id = new_details.id[1]] ELSE p2

\* the two conditional assignments on the post found
UpdatedPost(post, new_details) ==
    LET p1 == IF Truthy(new_details.title)
              THEN [post EXCEPT !.title = new_details.title[1]]
              ELSE post
    IN  IF Truthy(new_details.content)
        THEN [p1 EXCEPT !.content = new_details.content[1]]
        ELSE p1

UpdatePost(posts, id, new_details) ==
    IF BodyFalsy(new_details)
    THEN Result(400, "Invalid or missing JSON data.", posts, <<>>)
    ELSE LET i == FirstWithId(posts, id) IN
         IF i # 0
         THEN LET post == UpdatedPost(posts[i], new_details) IN
              Result(200, "", [posts EXCEPT ![i] = post], <<post>>)
         ELSE Result(404, "not found", posts, <<>>)

----------------------------------------------------------------------------
(* list: GET /api/posts *)

Reverse(s) == [i \in 1..Len(s) |-> s[Len(s) + 1 - i]]

\* the sort key: post[sort_field].lower()
SortKey(post, sort_field) == Lower(post[sort_field])

\* x is placed in front of y: its key is smaller (larger, when reversed)
GoesBefore(x, y, sort_field, reverse) ==
    IF reverse
    THEN StrLess(SortKey(y, sort_field), SortKey(x, sort_field))
    ELSE StrLess(SortKey(x, sort_field), SortKey(y, sort_field))

RECURSIVE InsertStable(_, _, _, _)
InsertStable(out, x, sort_field, reverse) ==
    IF out = <<>> THEN <<x>>
    ELSE IF GoesBefore(x, Head(out), sort_field, reverse) THEN <<x>> \o out
    ELSE <<Head(out)>> \o InsertStable(Tail(out), x, sort_field, reverse)

\* sorted(posts, key=..., reverse=...): a new list; the sort is stable, and
\* with reverse=True elements with equal keys still keep their original order
RECURSIVE sorted(_, _, _)
sorted(posts, sort_field, reverse) ==
    IF posts = <<>> THEN <<>>
    ELSE InsertStable(sorted(SubSeq(posts, 1, Len(posts) - 1), sort_field, reverse),
                      posts[Len(posts)], sort_field, reverse)

\* faulty variant of sort_posts: the descending list is the ascending one reversed
sort_posts_reversed(posts, sort_field, direction) ==
    IF direction = T_desc
    THEN Reverse(sorted(posts, sort_field, FALSE))
    ELSE sorted(posts, sort_field, FALSE)

sort_posts(posts, sort_field, direction) ==
    LET reverse == (direction = T_desc) IN sorted(posts, sort_field, reverse)

ListPosts(posts, sort, dir) ==
    LET sort_field == sort
        direction == Lower(IF dir = Absent THEN T_asc ELSE dir[1])
        \* `if sort_field`: None and "" are falsy
        given == sort_field # Absent /\ sort_field[1] # ""
    IN  IF given /\ sort_field[1] \notin {"title", "content"}
        THEN Result(400, "Invalid sort field.", posts, <<>>)
        ELSE IF direction \notin {T_asc, T_desc}
        THEN Result(400, "Invalid sort direction.", posts, <<>>)
        ELSE IF given
        THEN Result(200, "", posts, sort_posts(posts, sort_field[1], direction))
        ELSE Result(200, "", posts, posts)

----------------------------------------------------------------------------
(* search: GET /api/posts/search *)

\* faulty variant of StrAnd: the query is not tested for emptiness
StrAndNoGuard(x, y) == y

\* Python's `x and y` on a string x and a boolean y, taken for its truth value
StrAnd(x, y) == x # <<>> /\ y

RECURSIVE SearchLoop(_, _, _)
SearchLoop(posts, title_query, content_query) ==
    IF posts = <<>> THEN <<>>
    ELSE LET post == Head(posts)
             title_matches == StrAnd(title_query, StrIn(title_query, Lower(post.title)))
             content_matches ==
                 StrAnd(content_query, StrIn(content_query, Lower(post.content)))
             rest == SearchLoop(Tail(posts), title_query, content_query)
         IN  IF title_matches \/ content_matches THEN <<post>> \o rest ELSE rest

SearchPosts(posts, tq, cq) ==
    LET title_query == Lower(IF tq = Absent THEN T_empty ELSE tq[1])
        content_query == Lower(IF cq = Absent THEN T_empty ELSE cq[1])
    IN  Result(200, "", posts, SearchLoop(posts, title_query, content_query))

----------------------------------------------------------------------------
Init ==
    /\ POSTS = Seed
    /\ prev = Seed
    /\ resp = NoRequest
    /\ deleted = {}
    /\ lastDeleted = 0
    /\ pc = [t \in 1..NumThreads |-> "idle"]
    /\ t_next_id = [t \in 1..NumThreads |-> 0]
    /\ t_new_post = [t \in 1..NumThreads |-> NoBody]
    /\ stale = [t \in 1..NumThreads |-> FALSE]
    /\ raced = FALSE

Respond(req, r) ==
    [req EXCEPT !.status = r.status, !.message = r.message, !.payload = r.payload]

ThreadVars == <<pc, t_next_id, t_new_post, stale, raced>>

\* no request is being served
Idle == resp.op = "none"

Create ==
    \E body \in Bodies :
        /\ Idle
        /\ Len(POSTS) < MaxPosts
        /\ next_id(POSTS) <= MaxId
        /\ LET r == CreatePost(POSTS, body) IN
            /\ POSTS' = r.posts
            /\ prev' = POSTS
            /\ resp' = Respond([NoRequest EXCEPT !.op = "create", !.body = body], r)
        /\ UNCHANGED <<deleted, lastDeleted, ThreadVars>>

Delete ==
    \E id \in PathIds :
        /\ Idle
        /\ LET r == DeletePost(POSTS, id) IN
            /\ POSTS' = r.posts
            /\ prev' = POSTS
            /\ resp' = Respond([NoRequest EXCEPT !.op = "delete", !.id = id], r)
        /\ UNCHANGED <<deleted, lastDeleted, ThreadVars>>

Update ==
    \E id \in PathIds, body \in Bodies :
        /\ Idle
        /\ LET r == UpdatePost(POSTS, id, body) IN
            /\ POSTS' = r.posts
            /\ prev' = POSTS
            /\ resp' = Respond([NoRequest EXCEPT !.op = "update", !.id = id, !.body = body], r)
        /\ UNCHANGED <<deleted, lastDeleted, ThreadVars>>

List ==
    \E sort \in SortFields, dir \in Directions :
        /\ Idle
        /\ LET r == ListPosts(POSTS, sort, dir) IN
            /\ POSTS' = r.posts
            /\ prev' = POSTS
            /\ resp' = Respond([NoRequest EXCEPT !.op = "list", !.sort = sort,
                                                 !.direction = dir], r)
        /\ UNCHANGED <<deleted, lastDeleted, ThreadVars>>

Search ==
    \E tq \in Queries, cq \in Queries :
        /\ Idle
        /\ LET r == SearchPosts(POSTS, tq, cq) IN
            /\ POSTS' = r.posts
            /\ prev' = POSTS
            /\ resp' = Respond([NoRequest EXCEPT !.op = "search", !.title_q = tq,
                                                 !.content_q = cq], r)
        /\ UNCHANGED <<deleted, lastDeleted, ThreadVars>>

\* the response has been sent: the server waits for the next request.  The
\* history of the request is dropped, except for the id a delete has removed.
Reply ==
    /\ ~Idle
    /\ resp' = NoRequest
    /\ prev' = POSTS
    /\ lastDeleted' = IF resp.op = "delete" /\ resp.status = 200 THEN resp.id ELSE 0
    /\ UNCHANGED <<POSTS, deleted, ThreadVars>>

\* requests are served one at a time, each to completion
Next ==
    \/ Create
    \/ Delete
    \/ Update
    \/ List
    \/ Search
    \/ Reply

Spec == Init /\ [][Next]_vars

----------------------------------------------------------------------------
(* Creates and deletes only, with the set of deleted ids kept. *)

IdBodies ==
    {ObjectBody(Some(T_a), Some(T_b), Absent),
     ObjectBody(Some(T_Ab), Some(T_aB), Some(1)),
     ObjectBody(Some(T_a), Absent, Absent)}

CreateIds ==
    \E body \in IdBodies :
        /\ Idle
        /\ Len(POSTS) < MaxPosts
        /\ next_id(POSTS) <= MaxId
        /\ LET r == CreatePost(POSTS, body) IN
            /\ POSTS' = r.posts
            /\ prev' = POSTS
            /\ resp' = Respond([NoRequest EXCEPT !.op = "create", !.body = body], r)
        /\ UNCHANGED <<deleted, lastDeleted, ThreadVars>>

DeleteIds ==
    \E id \in PathIds :
        /\ Idle
        /\ LET r == DeletePost(POSTS, id) IN
            /\ POSTS' = r.posts
            /\ prev' = POSTS
            /\ resp' = Respond([NoRequest EXCEPT !.op = "delete", !.id = id], r)
            /\ deleted' = IF r.status = 200 THEN deleted \cup {id} ELSE deleted
        /\ UNCHANGED <<lastDeleted, ThreadVars>>

NextIds ==
    \/ CreateIds
    \/ DeleteIds
    \/ Reply

SpecIds == Init /\ [][NextIds]_vars

----------------------------------------------------------------------------
(* Requests served by worker threads at once (app.run serves each request  *)
(* in a thread of its own and the handlers take no lock): the create       *)
(* branch runs in three steps, and deletes run between them.               *)

Threads == 1..NumThreads

ConcBodies ==
    {ObjectBody(Some(T_a), Some(T_b), Absent),
     ObjectBody(Absent, Some(T_b), Absent)}

InFlight == {t \in Threads : pc[t] # "idle"}

\* POSTS has changed: every next_id computed and not yet used is stale
StaleAfterChange(t) == [u \in Threads |-> IF u \in InFlight /\ u # t THEN TRUE ELSE stale[u]]

\* the if/else that computes next_id
CreateComputeId(t) ==
    /\ pc[t] = "idle"
    /\ Len(POSTS) + Cardinality(InFlight) < MaxPosts
    /\ next_id(POSTS) <= MaxId
    /\ t_next_id' = [t_next_id EXCEPT ![t] = next_id(POSTS)]
    /\ stale' = [stale EXCEPT ![t] = FALSE]
    /\ pc' = [pc EXCEPT ![t] = "computed"]
    /\ UNCHANGED <<POSTS, prev, resp, deleted, lastDeleted, t_new_post, raced>>

\* new_post = request.get_json() and the two checks on it
CreateGetJson(t) ==
    \E body \in ConcBodies :
        /\ pc[t] = "computed"
        /\ IF CreateCheck(body)[1] = 201
           THEN /\ t_new_post' = [t_new_post EXCEPT ![t] = body]
                /\ pc' = [pc EXCEPT ![t] = "checked"]
                /\ UNCHANGED <<t_next_id, stale>>
           ELSE /\ pc' = [pc EXCEPT ![t] = "idle"]
                /\ t_next_id' = [t_next_id EXCEPT ![t] = 0]
                /\ stale' = [stale EXCEPT ![t] = FALSE]
                /\ UNCHANGED t_new_post
        /\ UNCHANGED <<POSTS, prev, resp, deleted, lastDeleted, raced>>

\* new_post['id'] = next_id; POSTS.append(new_post)
CreateAppend(t) ==
    /\ pc[t] = "checked"
    /\ POSTS' = CreateWithId(POSTS, t_new_post[t], t_next_id[t]).posts
    /\ raced' = (raced \/ stale[t])
    /\ stale' = [StaleAfterChange(t) EXCEPT ![t] = FALSE]
    /\ pc' = [pc EXCEPT ![t] = "idle"]
    /\ t_next_id' = [t_next_id EXCEPT ![t] = 0]
    /\ t_new_post' = [t_new_post EXCEPT ![t] = NoBody]
    /\ UNCHANGED <<prev, resp, deleted, lastDeleted>>

DeleteConc ==
    \E id \in PathIds :
        LET r == DeletePost(POSTS, id) IN
            /\ r.status = 200
            /\ POSTS' = r.posts
            /\ stale' = StaleAfterChange(0)
            /\ UNCHANGED <<prev, resp, deleted, lastDeleted, pc, t_next_id, t_new_post, raced>>

NextConc ==
    \/ \E t \in Threads : CreateComputeId(t)
    \/ \E t \in Threads : CreateGetJson(t)
    \/ \E t \in Threads : CreateAppend(t)
    \/ DeleteConc

SpecConc == Init /\ [][NextConc]_vars
----------------------------------------------------------------------------
(* Properties. *)

IdsDistinct(posts) ==
    \A i, j \in 1..Len(posts) : i # j => posts[i].id # posts[j].id

IsCreate == resp.op = "create"
IsDelete == resp.op = "delete"
IsUpdate == resp.op = "update"
IsList == resp.op = "list"
IsSearch == resp.op = "search"

\* a title or content a body supplies, and supplies non-empty
Supplied(o) == o # Absent /\ Len(o[1]) > 0

\* C1: with requests served one at a time, the ids of the posts in POSTS are
\* pairwise distinct in every reachable state, also when a create body
\* supplies an id of its own.
C1_IdsPairwiseDistinct == IdsDistinct(POSTS)

\* C1, its case: a create has succeeded whose body supplied an id in use.
C1_Witness ==
    /\ IsCreate /\ resp.status = 201
    /\ resp.body.id # Absent /\ resp.body.id[1] \in Ids(prev)

\* C2: a create whose body holds a non-empty title and a non-empty content
\* succeeds and appends exactly one post as the last element: the posts that
\* were there are unchanged and in place, the new post carries the body's
\* title and content, and its id is 1 on an empty list and otherwise one more
\* than an id in use and larger than every id in use.
C2_CreateAppendsMaxPlusOne ==
    (IsCreate /\ resp.body.kind = "object"
        /\ Supplied(resp.body.title) /\ Supplied(resp.body.content)) =>
        /\ resp.status = 201
        /\ Len(POSTS) = Len(prev) + 1
        /\ \A i \in 1..Len(prev) : POSTS[i] = prev[i]
        /\ LET new == POSTS[Len(POSTS)] IN
            /\ new.title = resp.body.title[1]
            /\ new.content = resp.body.content[1]
            /\ prev = <<>> => new.id = 1
            /\ prev # <<>> => (new.id - 1) \in Ids(prev)
            /\ \A i \in 1..Len(prev) : prev[i].id < new.id

\* C2, its case: a create has succeeded on a list whose largest id is not
\* its length.
C2_Witness ==
    /\ IsCreate /\ resp.status = 201
    /\ prev # <<>> /\ \E i \in 1..Len(prev) : prev[i].id > Len(prev)

\* a sorted list has been served in descending order
IsListDesc ==
    /\ IsList /\ resp.status = 200
    /\ resp.sort # Absent /\ resp.sort[1] # ""
    /\ resp.direction # Absent /\ Lower(resp.direction[1]) = T_desc

\* the list the handler serves for the same posts and field in ascending order
ListedAsc == ListPosts(prev, resp.sort, Some(T_asc)).payload

\* the sort key of the claim: the field, compared without regard to case
KeyCI(post, sort_field) == Lower(post[sort_field])

PositionIn(seq, x) == CHOOSE i \in 1..Len(seq) : seq[i] = x

NoTies(posts, sort_field) ==
    \A i, j \in 1..Len(posts) :
        i # j => KeyCI(posts[i], sort_field) # KeyCI(posts[j], sort_field)

\* C3 as stated: for each sort field, the descending list is exactly the
\* reversal of the ascending list, ties included.
C3_DescIsReverseOfAsc == IsListDesc => resp.payload = Reverse(ListedAsc)

\* C3 as amended: for each sort field, the descending list holds the posts of
\* the ascending list with the keys in exactly reversed order, and posts whose
\* keys are equal without regard to case stand in the same relative order in
\* both lists; it is the exact reversal when no two keys are equal.
C3_DescReversesAscKeepingTies ==
    IsListDesc =>
        LET f == resp.sort[1]
            A == ListedAsc
            D == resp.payload
            n == Len(prev)
        IN  /\ f \in {"title", "content"}
            /\ Len(A) = n /\ Len(D) = n
            /\ {D[i] : i \in 1..n} = {prev[i] : i \in 1..n}
            /\ {A[i] : i \in 1..n} = {prev[i] : i \in 1..n}
            /\ \A i \in 1..n : KeyCI(D[i], f) = KeyCI(A[n + 1 - i], f)
            /\ \A i, j \in 1..n :
                (i < j /\ KeyCI(D[i], f) = KeyCI(D[j], f)) =>
                    /\ PositionIn(A, D[i]) < PositionIn(A, D[j])
                    /\ PositionIn(prev, D[i]) < PositionIn(prev, D[j])
            /\ NoTies(prev, f) => D = Reverse(A)

\* C3, its case: a descending list by title has been served for a list in
\* which two titles differ by case only, and it is not the ascending list
\* reversed.
C3_Witness ==
    /\ IsListDesc
    /\ resp.sort = Some("title")
    /\ \E i, j \in 1..Len(prev) :
        /\ prev[i].title # prev[j].title
        /\ KeyCI(prev[i], "title") = KeyCI(prev[j], "title")
    /\ resp.payload # Reverse(ListedAsc)

\* C4: an update with a non-empty body on an id in use succeeds and changes
\* nothing but the title and the content of the post with that id: the title
\* becomes the body's title if the body supplies a non-empty one and stays
\* otherwise, likewise the content; the post's id stays whatever the body
\* holds, and the other posts, the size and the order stay.
C4_UpdateFrame ==
    (IsUpdate /\ resp.body.kind = "object"
        /\ (resp.body.title # Absent \/ resp.body.content # Absent \/ resp.body.id # Absent)
        /\ resp.id \in Ids(prev)) =>
        /\ resp.status = 200
        /\ Len(POSTS) = Len(prev)
        /\ \A i \in 1..Len(prev) :
            /\ POSTS[i].id = prev[i].id
            /\ prev[i].id # resp.id => POSTS[i] = prev[i]
            /\ prev[i].id = resp.id =>
                /\ POSTS[i].title = IF Supplied(resp.body.title)
                                    THEN resp.body.title[1] ELSE prev[i].title
                /\ POSTS[i].content = IF Supplied(resp.body.content)
                                      THEN resp.body.content[1] ELSE prev[i].content
                /\ resp.payload = <<POSTS[i]>>

\* C4, its case: an update has succeeded whose body supplied another id, an
\* empty title and a content that replaced the stored one.
C4_Witness ==
    /\ IsUpdate /\ resp.status = 200
    /\ resp.body.id # Absent /\ resp.body.id[1] # resp.id
    /\ resp.body.title = Some(T_empty)
    /\ Supplied(resp.body.content)
    /\ POSTS # prev

\* C5: a delete of an id in use succeeds and removes exactly the post with
\* that id: the list is one shorter, the other posts are unchanged and in
\* their order, and the id is in use no more; a delete that follows at once
\* on the same id answers 404 and changes nothing.
C5_DeleteRemovesExactlyOne ==
    /\ (IsDelete /\ resp.id \in Ids(prev)) =>
        /\ resp.status = 200
        /\ Len(POSTS) = Len(prev) - 1
        /\ resp.id \notin Ids(POSTS)
        /\ \E k \in 1..Len(prev) :
            /\ prev[k].id = resp.id
            /\ \A i \in 1..(k - 1) : POSTS[i] = prev[i]
            /\ \A i \in k..Len(POSTS) : POSTS[i] = prev[i + 1]
    /\ (IsDelete /\ lastDeleted = resp.id) =>
        /\ resp.status = 404
        /\ POSTS = prev

\* C5, its case: a delete has been answered right after a successful delete
\* of the same id.
C5_Witness == IsDelete /\ lastDeleted = resp.id /\ resp.status = 404

\* q occurs in s, case disregarded
SubstringCI(q, s) ==
    \E i \in 1..(Len(s) + 1) : \E j \in (i - 1)..Len(s) :
        Lower(SubSeq(s, i, j)) = Lower(q)

QueryText(o) == IF o = Absent THEN <<>> ELSE o[1]

\* the posts of POSTS' predecessor a search for the two queries is to return
SearchMatches(p, tq, cq) ==
    \/ Len(tq) > 0 /\ SubstringCI(tq, p.title)
    \/ Len(cq) > 0 /\ SubstringCI(cq, p.content)

\* C6: a search returns exactly the posts, in the order of the list, whose
\* title holds the non-empty title query or whose content holds the non-empty
\* content query, case disregarded: the union of the title matches and the
\* content matches, and nothing when both queries are empty.
C6_SearchIsUnionInOrder ==
    IsSearch =>
        LET tq == QueryText(resp.title_q)
            cq == QueryText(resp.content_q)
            byTitle == SearchPosts(prev, resp.title_q, Absent).payload
            byContent == SearchPosts(prev, Absent, resp.content_q).payload
        IN  /\ resp.status = 200
            /\ POSTS = prev
            /\ resp.payload = SelectSeq(prev, LAMBDA p : SearchMatches(p, tq, cq))
            /\ {resp.payload[i] : i \in 1..Len(resp.payload)} =
                    {byTitle[i] : i \in 1..Len(byTitle)} \cup
                    {byContent[i] : i \in 1..Len(byContent)}
            /\ (tq = <<>> /\ cq = <<>>) => resp.payload = <<>>

\* C6, its case: a search with both queries has returned a post that matches
\* by title only and a post that matches by content only, and not every post.
C6_Witness ==
    /\ IsSearch
    /\ Len(QueryText(resp.title_q)) > 0 /\ Len(QueryText(resp.content_q)) > 0
    /\ Len(resp.payload) < Len(prev)
    /\ \E i, j \in 1..Len(resp.payload) :
        /\ ~SubstringCI(QueryText(resp.content_q), resp.payload[i].content)
        /\ ~SubstringCI(QueryText(resp.title_q), resp.payload[j].title)

C8_TitleAndContentNonEmpty ==
    \A i \in 1..Len(POSTS) : Len(POSTS[i].title) > 0 /\ Len(POSTS[i].content) > 0

\* C8, its case: an update whose body holds an empty title has succeeded.
C8_Witness ==
    /\ IsUpdate /\ resp.status = 200
    /\ resp.body.title = Some(T_empty)

\* C9: a create gives its post an id that a delete has removed before only
\* when no post with that id or a larger one is left in the list.
C9_DeletedIdReusedOnlyAboveMax ==
    (IsCreate /\ resp.status = 201 /\ POSTS[Len(POSTS)].id \in deleted) =>
        \A i \in 1..Len(prev) : prev[i].id < POSTS[Len(POSTS)].id

\* C9, its case: a create has given its post an id that had been deleted,
\* while posts remained in the list.
C9_Witness ==
    /\ IsCreate /\ resp.status = 201
    /\ POSTS[Len(POSTS)].id \in deleted
    /\ prev # <<>>

\* C10: with creates served by threads at once, two posts share an id only
\* after a create has appended a post under an id computed before POSTS
\* changed; no create that runs alone breaks the distinctness of the ids.
C10_DuplicateIdsOnlyByRace == ~IdsDistinct(POSTS) => raced

\* C10, its case: two posts of POSTS share an id.
C10_Witness == ~IdsDistinct(POSTS)
====
